---- MODULE Spec2Model ----
(***************************************************************************)
(* Model of apps/desktop/src-tauri/src/lib.rs: the embedded-server         *)
(* supervisor (start_server, wait_for_server, get_server_port, the window  *)
(* Destroyed hook) and the keychain commands.                              *)
(*                                                                         *)
(* An Option<T> is modelled as a set with at most one element:             *)
(* None == {} and Some(x) == {x}.                                          *)
(***************************************************************************)
EXTENDS Integers, Sequences, FiniteSets, TLC

\* ------------------------------------------------------------- bounds
MaxStarts == 2          \* start_server invocations in one application run
MaxGets == 1            \* concurrent get_server_port callers
NumPorts == 2           \* ports the OS may hand out: 1..NumPorts
WaitMaxN == 5           \* largest max_retries tried in SpecWait

\* ------------------------------------------------- program constants
StartMaxRetries == 20   \* wait_for_server(port, 20)
BaseDelayMs == 200      \* from_millis(200 * ...)
MaxShift == 4           \* attempt.min(4)

StartCalls == 1..MaxStarts
GetCalls == 1..MaxGets
Ports == 1..NumPorts
HookId == MaxStarts + 1 \* lock-holder identity of the window-event hook

None == {}
Some(x) == {x}

VARIABLES
    port,           \* ServerState.port : Option<u16>
    server_pid,     \* ServerState.server_pid : Option<u32>
    port_lock,      \* holder of the port mutex (0: free)
    port_poisoned,  \* a holder of the port mutex panicked
    pid_lock,       \* holder of the server_pid mutex (0: free)
    pc,             \* position of each start_server call
    local_port,     \* start_server's local `port`
    child_pid,      \* start_server's local `pid` (0: no child spawned)
    attempt,        \* wait_for_server's loop variable
    max_retries,    \* wait_for_server's parameter
    requests,       \* GET requests issued by the call's wait_for_server
    sleeps,         \* completed or started backoff sleeps of the call
    slept_ms,       \* sum of the delays of those sleeps
    wait_result,    \* what the call's wait_for_server returned
    result,         \* what the call returned
    children,       \* number of child processes spawned so far; pids are 1..children
    healthy_seen,   \* ports for which a 2xx response with ok = true was observed
    last_outcome,   \* how the most recently finished start_server ended
    get_pc,         \* position of each get_server_port call
    get_result,     \* its return value
    hook_pc,        \* position of the Destroyed window-event hook
    kills,          \* pids a kill / taskkill command was issued for
    ok_at_destroy,  \* a start_server had returned Ok when the hook ran
    keychain,       \* the OS credential store: entry name -> Option<password>
    keychain_result, \* the KeychainResult of the latest keychain command
    last_cmd,       \* the latest keychain command, its arguments and what keyring returned
    vault_model     \* Option<value> of the latest successful set per (service, key), None after a delete

vars == <<port, server_pid, port_lock, port_poisoned, pid_lock, pc, local_port,
          child_pid, attempt, max_retries, requests, sleeps, slept_ms,
          wait_result, result, children, healthy_seen,
          last_outcome, get_pc, get_result, hook_pc, kills, ok_at_destroy,
          keychain, keychain_result, last_cmd, vault_model>>

stateVars == <<port, server_pid>>
lockVars == <<port_lock, port_poisoned, pid_lock>>
waitVars == <<attempt, max_retries, requests, sleeps, slept_ms, wait_result>>
getVars == <<get_pc, get_result>>
hookVars == <<hook_pc, kills, ok_at_destroy>>
vaultVars == <<keychain, keychain_result, last_cmd, vault_model>>
serverVars == <<port, server_pid, port_lock, port_poisoned, pid_lock, pc,
                local_port, child_pid, attempt, max_retries, requests, sleeps,
                slept_ms, wait_result, result, children,
                healthy_seen, last_outcome, get_pc, get_result, hook_pc, kills,
                ok_at_destroy>>

\* ------------------------------------------------------ result values
Pending == [tag |-> "Pending", port |-> 0, err |-> "", attempts |-> 0]
Ok(p) == [tag |-> "Ok", port |-> p, err |-> "", attempts |-> 0]
Err(kind, n) == [tag |-> "Err", port |-> 0, err |-> kind, attempts |-> n]

\* Err(format!("Server did not become healthy after {} attempts", max_retries))
TimeoutErr(n) == Err("timeout", n)

\* Ok(()) of wait_for_server
OkUnit == [tag |-> "Ok", port |-> 0, err |-> "", attempts |-> 0]

\* --------------------------------------------------- health responses
\* client.get(&url).send().await: a transport error, or a response with a
\* status and a body.
Responses ==
    {[net |-> "Err", status_ok |-> FALSE, body |-> "none"]} \cup
    [net : {"Ok"}, status_ok : BOOLEAN,
     body : {"ok_true", "ok_false", "undecodable"}]

\* Mutant of IsHealthy: the status code is not looked at.
IsHealthy_IgnoresStatus(r) ==
    /\ r.net = "Ok"
    /\ r.body # "undecodable"
    /\ r.body = "ok_true"

\* if resp.status().is_success() { if let Ok(health) = resp.json() { if health.ok
IsHealthy(r) ==
    /\ r.net = "Ok"
    /\ r.status_ok
    /\ r.body # "undecodable"
    /\ r.body = "ok_true"

Min(a, b) == IF a < b THEN a ELSE b

RECURSIVE Shl1(_)
\* 1 << k
Shl1(k) == IF k = 0 THEN 1 ELSE 2 * Shl1(k - 1)

\* Mutant of Delay: the shift is not capped, 200 * (1 << attempt).
Delay_Uncapped(a) == BaseDelayMs * Shl1(a)

\* 200 * (1 << attempt.min(4))
Delay(a) == BaseDelayMs * Shl1(Min(a, MaxShift))

\* ----------------------------------------------------------- keychain
\* Arguments the front end passes to the keychain commands.
Services == {"sync", "sync.a"}
Keys == {"token", "a.token"}
Values == {"abc123", "xyz"}

\* What the storage backend does with a call: it works, keyring::Entry::new
\* fails, or the operation on the entry fails (another error than NoEntry).
Backends == {"ok", "new_err", "op_err"}

\* struct KeychainResult { success, value, error }
KeychainResult(s, v, e) == [success |-> s, value |-> v, error |-> e]

\* format!("worldmirror.{}.{}", service, key)
EntryName(service, key) == "worldmirror." \o service \o "." \o key

EntryNames(S, K) == {EntryName(sv, k) : sv \in S, k \in K}

\* A keychain command as the front end invoked it, with what the keyring
\* call in it returned: "Ok", "NoEntry", "Err" (another keyring error) or
\* "NewErr" (Entry::new failed).
Cmd(op, service, key, ret) == [op |-> op, service |-> service, key |-> key, ret |-> ret]

NoCmd == Cmd("none", "", "", "")

\* ------------------------------------------------------------- Init
Init ==
    /\ port = None
    /\ server_pid = None
    /\ port_lock = 0
    /\ port_poisoned = FALSE
    /\ pid_lock = 0
    /\ pc = [c \in StartCalls |-> "idle"]
    /\ local_port = [c \in StartCalls |-> 0]
    /\ child_pid = [c \in StartCalls |-> 0]
    /\ attempt = [c \in StartCalls |-> 0]
    /\ max_retries = [c \in StartCalls |-> 0]
    /\ requests = [c \in StartCalls |-> 0]
    /\ sleeps = [c \in StartCalls |-> 0]
    /\ slept_ms = [c \in StartCalls |-> 0]
    /\ wait_result = [c \in StartCalls |-> Pending]
    /\ result = [c \in StartCalls |-> Pending]
    /\ children = 0
    /\ healthy_seen = {}
    /\ last_outcome = "none"
    /\ get_pc = [g \in GetCalls |-> "idle"]
    /\ get_result = [g \in GetCalls |-> None]
    /\ hook_pc = "running"
    /\ kills = <<>>
    /\ ok_at_destroy = FALSE
    /\ keychain = [e \in EntryNames(Services, Keys) |-> None]
    /\ keychain_result = KeychainResult(TRUE, None, None)
    /\ last_cmd = NoCmd
    /\ vault_model = [sk \in Services \X Keys |-> None]

\* ------------------------------------------------------ start_server
\* The front end invokes the command; no invocation after the window is gone.
\* Calls are numbered in the order of their invocation.
Invoke(c) ==
    /\ pc[c] = "idle"
    /\ \A d \in StartCalls : d < c => pc[d] # "idle"
    /\ hook_pc = "running"
    /\ pc' = [pc EXCEPT ![c] = "lock"]
    /\ UNCHANGED <<stateVars, lockVars, local_port, child_pid, waitVars, result,
                   children, healthy_seen, last_outcome, getVars, hookVars, vaultVars>>

\* Mutant of ReleasePortLock: the guard is forgotten (mem::forget) and the
\* mutex stays locked by the call that returned.
ReleasePortLock_Kept == port_lock

\* How a returning start_server leaves `port_lock`: the guard is dropped.
ReleasePortLock == 0

\* Return from start_server with result r along path `how`; the locals of the
\* call (and of its wait_for_server) go out of scope.
Return(c, r, how) ==
    /\ pc' = [pc EXCEPT ![c] = "done"]
    /\ result' = [result EXCEPT ![c] = r]
    /\ last_outcome' = how
    /\ local_port' = [local_port EXCEPT ![c] = 0]
    /\ attempt' = [attempt EXCEPT ![c] = 0]
    /\ max_retries' = [max_retries EXCEPT ![c] = 0]
    /\ requests' = [requests EXCEPT ![c] = 0]
    /\ sleeps' = [sleeps EXCEPT ![c] = 0]
    /\ slept_ms' = [slept_ms EXCEPT ![c] = 0]
    /\ wait_result' = [wait_result EXCEPT ![c] = Pending]

\* let mut port_lock = state.port.lock().map_err(|e| e.to_string())?;  (Ok)
LockPort(c) ==
    /\ pc[c] = "lock"
    /\ port_lock = 0
    /\ ~port_poisoned
    /\ port_lock' = c
    /\ pc' = [pc EXCEPT ![c] = "check"]
    /\ UNCHANGED <<stateVars, port_poisoned, pid_lock, local_port, child_pid,
                   waitVars, result, children, healthy_seen, last_outcome,
                   getVars, hookVars, vaultVars>>

\* ... the same line on a poisoned mutex: Err(PoisonError), guard dropped.
LockPortPoisoned(c) ==
    /\ pc[c] = "lock"
    /\ port_lock = 0
    /\ port_poisoned
    /\ Return(c, Err("poisoned", 0), "poisoned")
    /\ UNCHANGED <<stateVars, lockVars, child_pid, children, healthy_seen,
                   getVars, hookVars, vaultVars>>

\* if let Some(port) = *port_lock { return Ok(port); }
FastPath(c) ==
    /\ pc[c] = "check"
    /\ port # None
    /\ \E p \in port : Return(c, Ok(p), "fast")
    /\ port_lock' = ReleasePortLock
    /\ UNCHANGED <<stateVars, port_poisoned, pid_lock, child_pid, children,
                   healthy_seen, getVars, hookVars, vaultVars>>

\* let port = find_available_port();   (bind and local_addr succeed)
FindAvailablePort(c, p) ==
    /\ pc[c] = "check"
    /\ port = None
    /\ local_port' = [local_port EXCEPT ![c] = p]
    /\ pc' = [pc EXCEPT ![c] = "spawn"]
    /\ UNCHANGED <<stateVars, lockVars, child_pid, waitVars, result, children,
                   healthy_seen, last_outcome, getVars, hookVars, vaultVars>>

\* find_available_port: .expect("Failed to bind to port") panics; the
\* unwinding drops port_lock and poisons the mutex.
BindPanic(c) ==
    /\ pc[c] = "check"
    /\ port = None
    /\ port_lock' = 0
    /\ port_poisoned' = TRUE
    /\ Return(c, [Pending EXCEPT !.tag = "Panic"], "panic")
    /\ UNCHANGED <<stateVars, pid_lock, child_pid, children, healthy_seen,
                   getVars, hookVars, vaultVars>>

\* StdCommand::new("node")....env("PORT", port.to_string()).spawn()  (Ok)
\* let pid = child.id();
SpawnOk(c) ==
    /\ pc[c] = "spawn"
    /\ children' = children + 1
    /\ child_pid' = [child_pid EXCEPT ![c] = children + 1]
    /\ pc' = [pc EXCEPT ![c] = "pid_lock"]
    /\ UNCHANGED <<stateVars, lockVars, local_port, waitVars, result,
                   healthy_seen, last_outcome, getVars, hookVars, vaultVars>>

\* Errors the operating system reports when the node binary cannot be run.
OsErrors == {"No such file or directory (os error 2)",
             "Permission denied (os error 13)"}

\* format!("Failed to spawn server: {}", e)
SpawnErr(e) == Err("Failed to spawn server: " \o e, 0)

\* Mutant of SpawnFail: the child's pid slot is cleared when the spawn fails.
SpawnFail_ClearsPid(c, e) ==
    /\ pc[c] = "spawn"
    /\ Return(c, SpawnErr(e), "spawn_err")
    /\ port_lock' = ReleasePortLock
    /\ server_pid' = None
    /\ UNCHANGED <<port, port_poisoned, pid_lock, child_pid, children,
                   healthy_seen, getVars, hook_pc, kills, ok_at_destroy, vaultVars>>

\* .spawn().map_err(|e| format!("Failed to spawn server: {}", e))?
SpawnFail(c, e) ==
    /\ pc[c] = "spawn"
    /\ Return(c, SpawnErr(e), "spawn_err")
    /\ port_lock' = ReleasePortLock
    /\ UNCHANGED <<stateVars, port_poisoned, pid_lock, child_pid, children,
                   healthy_seen, getVars, hookVars, vaultVars>>

\* let mut pid_lock = state.server_pid.lock()...?;
LockPid(c) ==
    /\ pc[c] = "pid_lock"
    /\ pid_lock = 0
    /\ pid_lock' = c
    /\ pc' = [pc EXCEPT ![c] = "pid_store"]
    /\ UNCHANGED <<stateVars, port_lock, port_poisoned, local_port, child_pid,
                   waitVars, result, children, healthy_seen, last_outcome,
                   getVars, hookVars, vaultVars>>

\* Mutant of StorePid: the port guard is dropped before the health wait.
StorePid_DropsPortLock(c) ==
    /\ pc[c] = "pid_store"
    /\ server_pid' = Some(child_pid[c])
    /\ pid_lock' = 0
    /\ port_lock' = 0
    /\ max_retries' = [max_retries EXCEPT ![c] = StartMaxRetries]
    /\ attempt' = [attempt EXCEPT ![c] = 0]
    /\ pc' = [pc EXCEPT ![c] = "wait_loop"]
    /\ UNCHANGED <<port, port_poisoned, local_port, child_pid,
                   requests, sleeps, slept_ms, wait_result, result, children, healthy_seen,
                   last_outcome, getVars, hookVars, vaultVars>>

\* Mutant of StorePid: the server_pid guard is not scoped and stays held.
StorePid_KeepsPidLock(c) ==
    /\ pc[c] = "pid_store"
    /\ server_pid' = Some(child_pid[c])
    /\ pid_lock' = c
    /\ max_retries' = [max_retries EXCEPT ![c] = StartMaxRetries]
    /\ attempt' = [attempt EXCEPT ![c] = 0]
    /\ pc' = [pc EXCEPT ![c] = "wait_loop"]
    /\ UNCHANGED <<port, port_lock, port_poisoned, local_port, child_pid,
                   requests, sleeps, slept_ms, wait_result, result, children, healthy_seen,
                   last_outcome, getVars, hookVars, vaultVars>>

\* Mutant of StorePid: the pid is not written to the state.
StorePid_NoRecord(c) ==
    /\ pc[c] = "pid_store"
    /\ server_pid' = server_pid
    /\ pid_lock' = 0
    /\ max_retries' = [max_retries EXCEPT ![c] = StartMaxRetries]
    /\ attempt' = [attempt EXCEPT ![c] = 0]
    /\ pc' = [pc EXCEPT ![c] = "wait_loop"]
    /\ UNCHANGED <<port, port_lock, port_poisoned, local_port, child_pid,
                   requests, sleeps, slept_ms, wait_result, result, children, healthy_seen,
                   last_outcome, getVars, hookVars, vaultVars>>

\* *pid_lock = Some(pid); }   then wait_for_server(port, 20) is entered
StorePid(c) ==
    /\ pc[c] = "pid_store"
    /\ server_pid' = Some(child_pid[c])
    /\ pid_lock' = 0
    /\ max_retries' = [max_retries EXCEPT ![c] = StartMaxRetries]
    /\ attempt' = [attempt EXCEPT ![c] = 0]
    /\ pc' = [pc EXCEPT ![c] = "wait_loop"]
    /\ UNCHANGED <<port, port_lock, port_poisoned, local_port, child_pid,
                   requests, sleeps, slept_ms, wait_result, result, children, healthy_seen,
                   last_outcome, getVars, hookVars, vaultVars>>

\* --------------------------------------------------- wait_for_server
\* wait_for_server is entered: for attempt in 0..max_retries {
\* client.get(&url).send() ...   (first iteration)
WaitSend(c) ==
    /\ pc[c] = "wait_loop"
    /\ attempt[c] = 0
    /\ attempt[c] < max_retries[c]
    /\ requests' = [requests EXCEPT ![c] = @ + 1]
    /\ pc' = [pc EXCEPT ![c] = "await_resp"]
    /\ UNCHANGED <<stateVars, lockVars, local_port, child_pid, attempt,
                   max_retries, sleeps, slept_ms, wait_result, result, children,
                   healthy_seen, last_outcome, getVars, hookVars, vaultVars>>

\* What the loop does after an attempt that did not return Ok(()).
AfterUnhealthy(c) ==
    /\ sleeps' = [sleeps EXCEPT ![c] = @ + 1]
    /\ slept_ms' = [slept_ms EXCEPT ![c] = @ + Delay(attempt[c])]
    /\ pc' = [pc EXCEPT ![c] = "sleep"]
    /\ UNCHANGED wait_result

\* Mutant of WaitResponse: a request that fails on the network ends the loop
\* with the error at once (send().await?).
WaitResponse_ErrAborts(c, r) ==
    /\ pc[c] = "await_resp"
    /\ healthy_seen' =
         IF r.net = "Ok" /\ r.status_ok /\ r.body = "ok_true"
         THEN healthy_seen \cup {local_port[c]} ELSE healthy_seen
    /\ IF IsHealthy(r)
       THEN /\ pc' = [pc EXCEPT ![c] = "wait_ok"]
            /\ wait_result' = [wait_result EXCEPT ![c] = OkUnit]
            /\ UNCHANGED <<sleeps, slept_ms>>
       ELSE IF r.net = "Err"
            THEN /\ pc' = [pc EXCEPT ![c] = "wait_err"]
                 /\ wait_result' = [wait_result EXCEPT ![c] = TimeoutErr(max_retries[c])]
                 /\ UNCHANGED <<sleeps, slept_ms>>
            ELSE AfterUnhealthy(c)
    /\ UNCHANGED <<stateVars, lockVars, local_port, child_pid, attempt,
                   max_retries, requests, result, children, last_outcome,
                   getVars, hookVars, vaultVars>>

\* The response arrives (or the request fails).
WaitResponse(c, r) ==
    /\ pc[c] = "await_resp"
    /\ healthy_seen' =
         IF r.net = "Ok" /\ r.status_ok /\ r.body = "ok_true"
         THEN healthy_seen \cup {local_port[c]} ELSE healthy_seen
    /\ IF IsHealthy(r)
       THEN /\ pc' = [pc EXCEPT ![c] = "wait_ok"]      \* return Ok(())
            /\ wait_result' = [wait_result EXCEPT ![c] = OkUnit]
            /\ UNCHANGED <<sleeps, slept_ms>>
       ELSE AfterUnhealthy(c)
    /\ UNCHANGED <<stateVars, lockVars, local_port, child_pid, attempt,
                   max_retries, requests, result, children, last_outcome,
                   getVars, hookVars, vaultVars>>

\* Mutant of WaitWake: the loop runs for attempt in 0..=max_retries.
WaitWake_OffByOne(c) ==
    /\ pc[c] = "sleep"
    /\ attempt' = [attempt EXCEPT ![c] = @ + 1]
    /\ IF attempt[c] + 1 <= max_retries[c]
       THEN /\ requests' = [requests EXCEPT ![c] = @ + 1]
            /\ pc' = [pc EXCEPT ![c] = "await_resp"]
            /\ UNCHANGED wait_result
       ELSE /\ pc' = [pc EXCEPT ![c] = "wait_err"]
            /\ wait_result' = [wait_result EXCEPT ![c] = TimeoutErr(max_retries[c])]
            /\ UNCHANGED requests
    /\ UNCHANGED <<stateVars, lockVars, local_port, child_pid, max_retries,
                   sleeps, slept_ms, result, children, healthy_seen,
                   last_outcome, getVars, hookVars, vaultVars>>

\* tokio::time::sleep(delay).await completes; the loop goes to its next
\* iteration, which sends the next request at once, or ends.
WaitWake(c) ==
    /\ pc[c] = "sleep"
    /\ attempt' = [attempt EXCEPT ![c] = @ + 1]
    /\ IF attempt[c] + 1 < max_retries[c]
       THEN /\ requests' = [requests EXCEPT ![c] = @ + 1]
            /\ pc' = [pc EXCEPT ![c] = "await_resp"]
            /\ UNCHANGED wait_result
       ELSE /\ pc' = [pc EXCEPT ![c] = "wait_err"]
            /\ wait_result' = [wait_result EXCEPT ![c] = TimeoutErr(max_retries[c])]
            /\ UNCHANGED requests
    /\ UNCHANGED <<stateVars, lockVars, local_port, child_pid, max_retries,
                   sleeps, slept_ms, result, children, healthy_seen,
                   last_outcome, getVars, hookVars, vaultVars>>

\* 0..max_retries is empty: the loop body never runs
WaitExhausted(c) ==
    /\ pc[c] = "wait_loop"
    /\ attempt[c] = 0
    /\ attempt[c] >= max_retries[c]
    /\ pc' = [pc EXCEPT ![c] = "wait_err"]
    /\ wait_result' = [wait_result EXCEPT ![c] = TimeoutErr(max_retries[c])]
    /\ UNCHANGED <<stateVars, lockVars, local_port, child_pid, attempt, max_retries,
                   requests, sleeps, slept_ms, result,
                   children, healthy_seen, last_outcome, getVars, hookVars, vaultVars>>

\* Mutant of HealthFailed: the port is recorded before the health result is looked at.
HealthFailed_StoresPort(c) ==
    /\ pc[c] = "wait_err"
    /\ Return(c, wait_result[c], "timeout")
    /\ port_lock' = ReleasePortLock
    /\ port' = Some(local_port[c])
    /\ UNCHANGED <<server_pid, port_poisoned, pid_lock, child_pid, children,
                   healthy_seen, getVars, hookVars, vaultVars>>

\* wait_for_server(port, 20).await?;   (Err)
HealthFailed(c) ==
    /\ pc[c] = "wait_err"
    /\ Return(c, wait_result[c], "timeout")
    /\ port_lock' = ReleasePortLock
    /\ UNCHANGED <<stateVars, port_poisoned, pid_lock, child_pid, children,
                   healthy_seen, getVars, hookVars, vaultVars>>

\* Mutant of StorePort: the port is returned but not recorded.
StorePort_NoStore(c) ==
    /\ pc[c] = "wait_ok"
    /\ port' = port
    /\ Return(c, Ok(local_port[c]), "ok")
    /\ port_lock' = ReleasePortLock
    /\ UNCHANGED <<server_pid, port_poisoned, pid_lock, child_pid, children,
                   healthy_seen, getVars, hookVars, vaultVars>>

\* *port_lock = Some(port); Ok(port)
StorePort(c) ==
    /\ pc[c] = "wait_ok"
    /\ port' = Some(local_port[c])
    /\ Return(c, Ok(local_port[c]), "ok")
    /\ port_lock' = ReleasePortLock
    /\ UNCHANGED <<server_pid, port_poisoned, pid_lock, child_pid, children,
                   healthy_seen, getVars, hookVars, vaultVars>>

\* --------------------------------------------------- get_server_port
GetInvoke(g) ==
    /\ get_pc[g] \in {"idle", "done"}
    /\ \A h \in GetCalls : h < g => get_pc[h] # "idle"
    /\ hook_pc = "running"
    /\ get_pc' = [get_pc EXCEPT ![g] = "lock"]
    /\ get_result' = [get_result EXCEPT ![g] = None]
    /\ UNCHANGED <<stateVars, lockVars, pc, local_port, child_pid, waitVars,
                   result, children, healthy_seen, last_outcome, hookVars, vaultVars>>

\* state.port.lock(): returns once no one holds the mutex
PortLockAvailable == port_lock = 0

\* Mutant of GetServerPort: try_lock instead of lock: None when the mutex is held.
GetServerPort_TryLock(g) ==
    /\ get_pc[g] = "lock"
    /\ get_result' = [get_result EXCEPT ![g] = IF port_poisoned \/ port_lock # 0 THEN None ELSE port]
    /\ get_pc' = [get_pc EXCEPT ![g] = "done"]
    /\ UNCHANGED <<stateVars, lockVars, pc, local_port, child_pid, waitVars,
                   result, children, healthy_seen, last_outcome, hookVars, vaultVars>>

\* state.port.lock().ok().and_then(|lock| *lock)
GetServerPort(g) ==
    /\ get_pc[g] = "lock"
    /\ PortLockAvailable
    /\ get_result' = [get_result EXCEPT ![g] = IF port_poisoned THEN None ELSE port]
    /\ get_pc' = [get_pc EXCEPT ![g] = "done"]
    /\ UNCHANGED <<stateVars, lockVars, pc, local_port, child_pid, waitVars,
                   result, children, healthy_seen, last_outcome, hookVars, vaultVars>>

\* ------------------------------------- on_window_event (Destroyed)
\* if let Ok(pid_lock) = state.server_pid.lock()
HookLock ==
    /\ hook_pc = "running"
    /\ pid_lock = 0
    /\ pid_lock' = HookId
    /\ hook_pc' = "locked"
    /\ UNCHANGED <<stateVars, port_lock, port_poisoned, pc, local_port,
                   child_pid, waitVars, result, children, healthy_seen,
                   last_outcome, getVars, kills, ok_at_destroy, vaultVars>>

\* The pids the hook issues a termination command for.
HookTargets == server_pid

\* Mutant of HookKill: the hook also resets the port field.
HookKill_ClearsPort ==
    /\ hook_pc = "locked"
    /\ kills' = IF HookTargets = None THEN kills
                ELSE kills \o <<CHOOSE p \in HookTargets : TRUE>>
    /\ ok_at_destroy' = \E c \in StartCalls : result[c].tag = "Ok"
    /\ pid_lock' = 0
    /\ port' = None
    /\ hook_pc' = "destroyed"
    /\ UNCHANGED <<server_pid, port_lock, port_poisoned, pc, local_port,
                   child_pid, waitVars, result, children, healthy_seen,
                   last_outcome, getVars, vaultVars>>

\* if let Some(pid) = *pid_lock { Command::new("kill")...spawn() }
HookKill ==
    /\ hook_pc = "locked"
    /\ kills' = IF HookTargets = None THEN kills
                ELSE kills \o <<CHOOSE p \in HookTargets : TRUE>>
    /\ ok_at_destroy' = \E c \in StartCalls : result[c].tag = "Ok"
    /\ pid_lock' = 0
    /\ hook_pc' = "destroyed"
    /\ UNCHANGED <<stateVars, port_lock, port_poisoned, pc, local_port,
                   child_pid, waitVars, result, children, healthy_seen,
                   last_outcome, getVars, vaultVars>>

\* -------------------------------------------------- keychain commands
\* Err(e) => KeychainResult { success: false, value: None,
\*                            error: Some(format!("Failed to create ...")) }
NewEntryFailed == KeychainResult(FALSE, None, Some("Failed to create keychain entry"))

\* keychain_set(service, key, value)
KeychainSet(service, key, value, backend) ==
    /\ keychain' = IF backend = "ok"
                   THEN [keychain EXCEPT ![EntryName(service, key)] = Some(value)]
                   ELSE keychain
    /\ keychain_result' =
         CASE backend = "ok" -> KeychainResult(TRUE, None, None)
           [] backend = "op_err" ->
                KeychainResult(FALSE, None, Some("Failed to set keychain entry"))
           [] OTHER -> NewEntryFailed
    /\ UNCHANGED serverVars

\* Mutant of KeychainGet: Err(keyring::Error::NoEntry) is reported like any
\* other error of get_password.
KeychainGet_AbsentIsError(service, key, backend) ==
    /\ keychain_result' =
         CASE backend = "ok" ->
                IF keychain[EntryName(service, key)] = None
                THEN KeychainResult(FALSE, None, Some("Failed to get keychain entry"))
                ELSE KeychainResult(TRUE, keychain[EntryName(service, key)], None)
           [] backend = "op_err" ->
                KeychainResult(FALSE, None, Some("Failed to get keychain entry"))
           [] OTHER -> NewEntryFailed
    /\ UNCHANGED <<keychain, serverVars>>

\* keychain_get(service, key)
KeychainGet(service, key, backend) ==
    /\ keychain_result' =
         CASE backend = "ok" ->
                \* Ok(password) => value: Some(password);
                \* Err(keyring::Error::NoEntry) => value: None
                KeychainResult(TRUE, keychain[EntryName(service, key)], None)
           [] backend = "op_err" ->
                KeychainResult(FALSE, None, Some("Failed to get keychain entry"))
           [] OTHER -> NewEntryFailed
    /\ UNCHANGED <<keychain, serverVars>>

\* Mutant of KeychainDelete: Err(keyring::Error::NoEntry) is reported like
\* any other error of delete_credential.
KeychainDelete_AbsentIsError(service, key, backend) ==
    /\ keychain' = IF backend = "ok"
                   THEN [keychain EXCEPT ![EntryName(service, key)] = None]
                   ELSE keychain
    /\ keychain_result' =
         CASE backend = "ok" ->
                IF keychain[EntryName(service, key)] = None
                THEN KeychainResult(FALSE, None, Some("Failed to delete keychain entry"))
                ELSE KeychainResult(TRUE, None, None)
           [] backend = "op_err" ->
                KeychainResult(FALSE, None, Some("Failed to delete keychain entry"))
           [] OTHER -> NewEntryFailed
    /\ UNCHANGED serverVars

\* keychain_delete(service, key)
KeychainDelete(service, key, backend) ==
    /\ keychain' = IF backend = "ok"
                   THEN [keychain EXCEPT ![EntryName(service, key)] = None]
                   ELSE keychain
    /\ keychain_result' =
         CASE backend = "ok" ->
                \* Ok(()) and Err(keyring::Error::NoEntry) give the same result
                KeychainResult(TRUE, None, None)
           [] backend = "op_err" ->
                KeychainResult(FALSE, None, Some("Failed to delete keychain entry"))
           [] OTHER -> NewEntryFailed
    /\ UNCHANGED serverVars

\* The keychain commands with arguments from S, K and V, the backend
\* behaving as one of B.
VaultNext(S, K, V, B) ==
    /\ \/ \E sv \in S, k \in K, v \in V, b \in B : KeychainSet(sv, k, v, b)
       \/ \E sv \in S, k \in K, b \in B : KeychainGet(sv, k, b)
       \/ \E sv \in S, k \in K, b \in B : KeychainDelete(sv, k, b)
    /\ UNCHANGED <<last_cmd, vault_model>>

\* What the keyring call of a command returns: set_password, get_password
\* or delete_credential on the entry, or Entry::new failing before it.
KeyringReturn(op, service, key, backend) ==
    CASE backend = "new_err" -> "NewErr"
      [] backend = "op_err" -> "Err"
      [] OTHER -> IF op # "set" /\ keychain[EntryName(service, key)] = None
                  THEN "NoEntry" ELSE "Ok"

\* The keychain commands with the history of the calls recorded: the latest
\* command, and per (service, key) what the successful sets and deletes on
\* that pair left.
VaultSet(service, key, value, backend) ==
    /\ KeychainSet(service, key, value, backend)
    /\ last_cmd' = Cmd("set", service, key, KeyringReturn("set", service, key, backend))
    /\ vault_model' = IF keychain_result'.success
                      THEN [vault_model EXCEPT ![<<service, key>>] = Some(value)]
                      ELSE vault_model

VaultGet(service, key, backend) ==
    /\ KeychainGet(service, key, backend)
    /\ last_cmd' = Cmd("get", service, key, KeyringReturn("get", service, key, backend))
    /\ UNCHANGED vault_model

VaultDelete(service, key, backend) ==
    /\ KeychainDelete(service, key, backend)
    /\ last_cmd' = Cmd("delete", service, key, KeyringReturn("delete", service, key, backend))
    /\ vault_model' = IF keychain_result'.success
                      THEN [vault_model EXCEPT ![<<service, key>>] = None]
                      ELSE vault_model

\* -------------------------------------------------------------- Next
Next ==
    \/ \E c \in StartCalls : Invoke(c)
    \/ \E c \in StartCalls : LockPort(c)
    \/ \E c \in StartCalls : LockPortPoisoned(c)
    \/ \E c \in StartCalls : FastPath(c)
    \/ \E c \in StartCalls, p \in Ports : FindAvailablePort(c, p)
    \/ \E c \in StartCalls : BindPanic(c)
    \/ \E c \in StartCalls : SpawnOk(c)
    \/ \E c \in StartCalls, e \in OsErrors : SpawnFail(c, e)
    \/ \E c \in StartCalls : LockPid(c)
    \/ \E c \in StartCalls : StorePid(c)
    \/ \E c \in StartCalls : WaitSend(c)
    \/ \E c \in StartCalls, r \in Responses : WaitResponse(c, r)
    \/ \E c \in StartCalls : WaitWake(c)
    \/ \E c \in StartCalls : HealthFailed(c)
    \/ \E c \in StartCalls : StorePort(c)
    \/ \E g \in GetCalls : GetInvoke(g)
    \/ \E g \in GetCalls : GetServerPort(g)
    \/ HookLock
    \/ HookKill

Spec == Init /\ [][Next]_vars

\* wait_for_server(p, n) on its own, for every n up to WaitMaxN: call 1 stands
\* at the entry of wait_for_server.
InitWait ==
    \E n \in 0..WaitMaxN, p \in Ports :
        /\ port = None
        /\ server_pid = None
        /\ port_lock = 0
        /\ port_poisoned = FALSE
        /\ pid_lock = 0
        /\ pc = [c \in StartCalls |-> IF c = 1 THEN "wait_loop" ELSE "idle"]
        /\ local_port = [c \in StartCalls |-> IF c = 1 THEN p ELSE 0]
        /\ child_pid = [c \in StartCalls |-> 0]
        /\ attempt = [c \in StartCalls |-> 0]
        /\ max_retries = [c \in StartCalls |-> IF c = 1 THEN n ELSE 0]
        /\ requests = [c \in StartCalls |-> 0]
        /\ sleeps = [c \in StartCalls |-> 0]
        /\ slept_ms = [c \in StartCalls |-> 0]
        /\ wait_result = [c \in StartCalls |-> Pending]
        /\ result = [c \in StartCalls |-> Pending]
            /\ children = 0
        /\ healthy_seen = {}
        /\ last_outcome = "none"
        /\ get_pc = [g \in GetCalls |-> "idle"]
        /\ get_result = [g \in GetCalls |-> None]
        /\ hook_pc = "running"
        /\ kills = <<>>
        /\ ok_at_destroy = FALSE
        /\ keychain = [e \in EntryNames(Services, Keys) |-> None]
        /\ keychain_result = KeychainResult(TRUE, None, None)
        /\ last_cmd = NoCmd
        /\ vault_model = [sk \in Services \X Keys |-> None]

\* One step of start_server call c after its invocation.
StartStep(c) ==
    \/ LockPort(c)
    \/ LockPortPoisoned(c)
    \/ FastPath(c)
    \/ \E p \in Ports : FindAvailablePort(c, p)
    \/ BindPanic(c)
    \/ SpawnOk(c)
    \/ \E e \in OsErrors : SpawnFail(c, e)
    \/ LockPid(c)
    \/ StorePid(c)
    \/ WaitSend(c)
    \/ \E r \in Responses : WaitResponse(c, r)
    \/ WaitWake(c)
    \/ HealthFailed(c)
    \/ StorePort(c)

\* The runtime keeps polling every start_server future, every request gets
\* its response or its error, every sleep ends; a get_server_port or the
\* window hook that waits for a mutex takes it once it stays free.
Fairness ==
    /\ \A c \in StartCalls : WF_vars(StartStep(c))
    /\ \A g \in GetCalls : WF_vars(GetServerPort(g))
    /\ WF_vars(HookLock)
    /\ WF_vars(HookKill)

SpecFair == Init /\ [][Next]_vars /\ Fairness

NextWait ==
    \/ WaitSend(1)
    \/ \E r \in Responses : WaitResponse(1, r)
    \/ WaitWake(1)
    \/ WaitExhausted(1)

SpecWait == InitWait /\ [][NextWait]_vars

\* The server commands together with the keychain commands on one entry of a
\* working credential store.
NextAll ==
    \/ Next
    \/ VaultNext({"sync"}, {"token"}, {"abc123"}, {"ok"})

SpecAll == Init /\ [][NextAll]_vars

\* The keychain commands on their own, with every argument and every
\* behaviour of the backend.
NextVault ==
    \/ \E sv \in Services, k \in Keys, v \in Values, b \in Backends : VaultSet(sv, k, v, b)
    \/ \E sv \in Services, k \in Keys, b \in Backends : VaultGet(sv, k, b)
    \/ \E sv \in Services, k \in Keys, b \in Backends : VaultDelete(sv, k, b)

SpecVault == Init /\ [][NextVault]_vars

\* ============================================================== claims
\* Positions at which a start_server call is suspended inside the health
\* check: a request in flight, or a backoff delay.
Suspended(c) == pc[c] \in {"await_resp", "sleep"}

\* Positions between the acquisition of the port lock and the return.
InProgress(c) ==
    pc[c] \in {"check", "spawn", "pid_lock", "pid_store", "wait_loop",
               "await_resp", "sleep", "wait_ok", "wait_err"}

Returned(c) == pc[c] = "done"
ReturnedOk(c) == Returned(c) /\ result[c].tag = "Ok"

\* The calls that returned a port after spawning a child themselves.
OkSpawners == {c \in StartCalls : ReturnedOk(c) /\ child_pid[c] # 0}

\* C1: once a start() has returned a port p, every later return of a start()
\* is Ok(p) and no further child is spawned; the calls that returned a port
\* spawned exactly one child between them.
C1_StartIdempotent ==
    /\ []((\E c \in StartCalls : ReturnedOk(c)) => Cardinality(OkSpawners) = 1)
    /\ [][\A p \in Ports :
            (\E c \in StartCalls : ReturnedOk(c) /\ result[c].port = p) =>
                /\ children' = children
                /\ \A d \in StartCalls : result'[d] \in {result[d], Ok(p)}]_vars

\* C1 witness: two calls returned the same port, the second one by the fast
\* path, with one child spawned in the whole run.
C1_Witness ==
    \E c, d \in StartCalls :
        /\ c # d
        /\ ReturnedOk(c) /\ child_pid[c] # 0
        /\ ReturnedOk(d) /\ child_pid[d] = 0
        /\ result[c] = result[d]
        /\ children = 1

\* No wait_for_server of the run has ended with the timeout error.
NoHealthFailure ==
    \A c \in StartCalls : pc[c] # "wait_err" /\ result[c].err # "timeout"

\* No start_server of the run has failed in any way.
NoFailure ==
    /\ NoHealthFailure
    /\ \A c \in StartCalls : result[c].tag \in {"Pending", "Ok"}

\* The call has entered its own allocate-and-spawn sequence (it is past
\* find_available_port, or it spawned a child).
RanOwnSequence(c) ==
    \/ pc[c] \in {"spawn", "pid_lock", "pid_store", "wait_loop", "await_resp",
                  "sleep", "wait_ok", "wait_err"}
    \/ child_pid[c] # 0

C4_PortAfterHealthy ==
    /\ [](port \subseteq healthy_seen)
    /\ [][port' # port =>
            \E c \in StartCalls :
                /\ pc[c] = "wait_ok"
                /\ wait_result[c] = OkUnit
                /\ local_port[c] \in healthy_seen
                /\ port' = Some(local_port[c])]_vars

\* C4 witness: port is set after an earlier start() timed out, which had
\* left server_pid set and port unset.
C4_Witness ==
    /\ port # None
    /\ port \subseteq healthy_seen
    /\ \E c \in StartCalls : result[c] = TimeoutErr(StartMaxRetries)
    /\ children = 2

\* C5: once port is Some(p) it keeps that value in every later state.
C5_PortSetOnce == [][port # None => port' = port]_vars

\* C5 witness: port is set, and a get_server_port, a keychain_set and the
\* window hook have run.
C5_Witness ==
    /\ port # None
    /\ hook_pc = "destroyed"
    /\ \E g \in GetCalls : get_pc[g] = "done" /\ get_result[g] = port
    /\ keychain[EntryName("sync", "token")] = Some("abc123")

\* C6: a start() whose health check failed returns the timeout error with
\* port unset and the lock released; the call that runs next does not take
\* the fast path but goes on to find_available_port; and every call in the
\* health check has spawned a child of its own and recorded its pid.
C6_RetryAfterTimeout ==
    /\ [][\A c \in StartCalls :
            (pc[c] = "wait_err" /\ pc'[c] = "done") =>
                /\ result'[c] = TimeoutErr(StartMaxRetries)
                /\ port' = None
                /\ port_lock' = 0]_vars
    /\ [][\A c \in StartCalls :
            (last_outcome = "timeout" /\ pc[c] = "check" /\ pc'[c] # "check") =>
                /\ pc'[c] = "spawn" \/ result'[c].tag = "Panic"
                /\ result'[c].tag # "Ok"]_vars
    /\ [](\A c \in StartCalls :
            pc[c] \in {"wait_loop", "await_resp", "sleep", "wait_ok", "wait_err"} =>
                /\ child_pid[c] = children
                /\ server_pid = Some(child_pid[c])
                /\ local_port[c] \in Ports)

\* C6 witness: after a start() that timed out, the next one polls the health
\* of a second child.
C6_Witness ==
    \E c, d \in StartCalls :
        /\ result[c] = TimeoutErr(StartMaxRetries)
        /\ pc[d] = "await_resp"
        /\ child_pid[d] = 2
        /\ child_pid[c] = 1
        /\ port = None

\* C7: when the hook runs after a start() has returned Ok, it issues exactly
\* one termination call, for the pid of the child that start() spawned.
C7_ShutdownKillsRecordedPid ==
    (hook_pc = "destroyed" /\ ok_at_destroy) =>
        \E c \in OkSpawners :
            /\ kills = <<child_pid[c]>>
            /\ server_pid = Some(child_pid[c])

\* C7 witness: the hook ran after a successful start() and one kill was
\* issued.
C7_Witness ==
    /\ hook_pc = "destroyed"
    /\ ok_at_destroy
    /\ Len(kills) = 1
    /\ \E c \in OkSpawners : kills[1] = child_pid[c]

C9_Original ==
    \A c \in StartCalls :
        (pc[c] = "wait_err" /\ max_retries[c] >= 1) =>
            /\ sleeps[c] = max_retries[c] - 1
            /\ max_retries[c] = 3 => slept_ms[c] = 600

\* C10: wait_for_server never issues more than max_retries requests, the
\* request in flight has attempt index requests - 1, and on exhaustion
\* exactly max_retries requests were issued and the error names max_retries.
C10_ExactlyNAttempts ==
    \A c \in StartCalls :
        /\ requests[c] <= max_retries[c]
        /\ pc[c] = "await_resp" => attempt[c] = requests[c] - 1
        /\ pc[c] = "wait_err" =>
              /\ requests[c] = max_retries[c]
              /\ wait_result[c] = TimeoutErr(max_retries[c])
              /\ wait_result[c].attempts = requests[c]
              /\ local_port[c] \notin healthy_seen

\* C10 witness: wait_for_server(port, 3) failed after three requests.
C10_Witness ==
    \E c \in StartCalls :
        /\ pc[c] = "wait_err"
        /\ max_retries[c] = 3
        /\ requests[c] = 3
        /\ wait_result[c].attempts = 3

\* The delays the backoff is described to follow, by attempt index.
BackoffSchedule == <<200, 400, 800, 1600, 3200>>

\* C11: the delay slept after unhealthy attempt i is 200 * 2^min(i, 4) ms,
\* that is 200, 400, 800, 1600, 3200, 3200, ... and never more than 3200 ms.
C11_BackoffSchedule ==
    [][\A c \in StartCalls :
          (pc[c] = "await_resp" /\ pc'[c] = "sleep") =>
              /\ slept_ms'[c] - slept_ms[c] = 200 * 2^Min(attempt[c], 4)
              /\ slept_ms'[c] - slept_ms[c] =
                   IF attempt[c] < 5 THEN BackoffSchedule[attempt[c] + 1] ELSE 3200
              /\ slept_ms'[c] - slept_ms[c] <= 3200
              /\ sleeps'[c] = sleeps[c] + 1]_vars

\* C11 witness: the delays after attempts 0..6 were slept, 3200 ms for each
\* of the attempts 4, 5 and 6.
C11_Witness ==
    \E c \in StartCalls :
        /\ pc[c] = "sleep"
        /\ attempt[c] = 6
        /\ sleeps[c] = 7
        /\ slept_ms[c] = 200 + 400 + 800 + 1600 + 3200 + 3200 + 3200

\* C12: wait_for_server returns Ok at the first response that has a success
\* status and a body with ok = true, and sends no request after it; any other
\* response (network failure, non-success status, ok = false, undecodable
\* body) does not end the loop with an error but is followed by the delay and,
\* while attempts remain, by the next request.
C12_FirstHealthyWins ==
    /\ [](\A c \in StartCalls :
            pc[c] = "wait_ok" =>
                /\ wait_result[c] = OkUnit
                /\ local_port[c] \in healthy_seen
                /\ requests[c] = attempt[c] + 1
                /\ sleeps[c] = attempt[c])
    /\ [][\A c \in StartCalls :
            /\ (pc[c] = "await_resp" /\ pc'[c] # "await_resp") =>
                 IF healthy_seen' # healthy_seen
                 THEN /\ pc'[c] = "wait_ok"
                      /\ requests'[c] = requests[c]
                 ELSE /\ pc'[c] = "sleep"
                      /\ wait_result'[c] = Pending
            /\ (pc[c] = "sleep" /\ pc'[c] # "sleep") =>
                 IF attempt[c] + 1 < max_retries[c]
                 THEN /\ pc'[c] = "await_resp"
                      /\ requests'[c] = requests[c] + 1
                 ELSE pc'[c] = "wait_err"
            /\ pc[c] = "wait_ok" => requests'[c] = requests[c]]_vars

\* C12 witness: two unhealthy attempts were followed by a delay each, the
\* third attempt was healthy and wait_for_server returned Ok after 3 requests.
C12_Witness ==
    \E c \in StartCalls :
        /\ pc[c] = "wait_ok"
        /\ wait_result[c] = OkUnit
        /\ attempt[c] = 2
        /\ requests[c] = 3
        /\ sleeps[c] = 2
        /\ max_retries[c] > 3

\* C13: when the child cannot be spawned, start_server returns the error
\* "Failed to spawn server: <OS error>" and the call leaves the state as it
\* found it: port and server_pid keep their values, no child exists for the
\* call and no health request is made.
C13_SpawnErrorLeavesState ==
    [][\A c \in StartCalls :
          /\ (pc[c] = "spawn" /\ pc'[c] = "done") =>
                /\ \E e \in OsErrors :
                      /\ result'[c].tag = "Err"
                      /\ result'[c].err = "Failed to spawn server: " \o e
                /\ port' = port
                /\ server_pid' = server_pid
                /\ children' = children
                /\ child_pid'[c] = 0
                /\ requests[c] = 0 /\ requests'[c] = 0
                /\ sleeps[c] = 0 /\ sleeps'[c] = 0
          /\ (pc[c] \in {"lock", "check"} /\ pc'[c] # pc[c]) =>
                /\ port' = port
                /\ server_pid' = server_pid
                /\ children' = children]_vars

\* C13 witness: a call returned the spawn error while server_pid still holds
\* the pid recorded by an earlier call and port is still unset.
C13_Witness ==
    \E c \in StartCalls :
        /\ Returned(c)
        /\ result[c].tag = "Err"
        /\ result[c].err = "Failed to spawn server: Permission denied (os error 13)"
        /\ child_pid[c] = 0
        /\ server_pid # None
        /\ port = None

\* C14 as stated: a failure to bind a port aborts only the start_server call
\* it happens in: no child is spawned by it, port and server_pid are left as
\* they were, and a start_server call made afterwards is served by its own
\* allocation, spawn and health check (it returns a port, or the error of its
\* own spawn or health check), never an error caused by the earlier failure.
C14_Original ==
    \A c \in StartCalls :
        (\E d \in StartCalls \ {c} : pc[d] = "done" /\ result[d].tag = "Panic") =>
            /\ result[c].tag = "Panic" => child_pid[c] = 0
            /\ (pc[c] = "done" /\ result[c].tag = "Err") =>
                  \/ result[c].err = "timeout"
                  \/ \E e \in OsErrors : result[c].err = "Failed to spawn server: " \o e

\* The credential-store entry the latest keychain command addressed.
LastEntry == EntryName(last_cmd.service, last_cmd.key)

\* The backend itself failed in the latest keychain command.
BackendFailed == last_cmd.ret \in {"Err", "NewErr"}

\* C15: a keychain_get on an entry that is not in the store returns
\* success = true with no value and no error; a keychain_get fails only when
\* the backend fails, and then it carries an error message.
C15_AbsentIsSuccess ==
    last_cmd.op = "get" =>
        /\ (~BackendFailed /\ keychain[LastEntry] = None) =>
              /\ keychain_result.success = TRUE
              /\ keychain_result.value = None
              /\ keychain_result.error = None
        /\ keychain_result.success = FALSE <=> BackendFailed
        /\ keychain_result.success = FALSE =>
              /\ keychain_result.error # None
              /\ keychain_result.value = None

\* C15 witness: a keychain_get found no entry for its (service, key), while
\* another entry of the store holds a value, and returned success with no value.
C15_Witness ==
    /\ last_cmd.op = "get"
    /\ last_cmd.ret = "NoEntry"
    /\ keychain[LastEntry] = None
    /\ \E e \in EntryNames(Services, Keys) : keychain[e] # None
    /\ keychain_result = [success |-> TRUE, value |-> None, error |-> None]

\* C16: keychain_delete on an entry that is not in the store returns success;
\* every keychain_delete the backend serves returns success and leaves the
\* entry absent, so a delete that follows a delete of the same entry succeeds
\* again and changes nothing in the store.
C16_DeleteIdempotent ==
    /\ [](last_cmd.op = "delete" /\ ~BackendFailed =>
            /\ keychain_result = [success |-> TRUE, value |-> None, error |-> None]
            /\ keychain[LastEntry] = None)
    /\ [][(/\ last_cmd.op = "delete" /\ ~BackendFailed
           /\ last_cmd'.op = "delete" /\ last_cmd'.ret \notin {"Err", "NewErr"}
           /\ last_cmd'.service = last_cmd.service
           /\ last_cmd'.key = last_cmd.key) =>
              /\ last_cmd'.ret = "NoEntry"
              /\ keychain_result'.success = TRUE
              /\ keychain' = keychain]_vars

\* C16 witness: a keychain_delete found no entry for its (service, key),
\* while another entry of the store holds a value, and returned success.
C16_Witness ==
    /\ last_cmd.op = "delete"
    /\ last_cmd.ret = "NoEntry"
    /\ keychain_result.success = TRUE
    /\ keychain[LastEntry] = None
    /\ \E e \in EntryNames(Services, Keys) : keychain[e] # None

\* C17 as stated: a keychain_get(service, key) the backend serves returns
\* what the latest successful keychain_set on the same (service, key) stored,
\* nothing after a keychain_delete of it, whatever was done to other pairs.
C17_Original ==
    (last_cmd.op = "get" /\ ~BackendFailed) =>
        keychain_result.value = vault_model[<<last_cmd.service, last_cmd.key>>]

\* C18 as stated: start_server does not terminate the child whose health
\* check failed, and the Destroyed hook sends a termination signal to every
\* child spawned by the calls that have returned, the ones orphaned by a failed
\* health check included.
C18_Original ==
    [][/\ \A c \in StartCalls :
            (pc[c] = "wait_err" /\ pc'[c] = "done") => kills' = kills
       /\ (hook_pc = "locked" /\ hook_pc' = "destroyed") =>
            \A c \in StartCalls :
                (Returned(c) /\ child_pid[c] # 0) =>
                    \E i \in 1..Len(kills') : kills'[i] = child_pid[c]]_vars

\* C19: a start_server call that has returned a result (fast path, spawn
\* error, health timeout, port) holds neither mutex: the port mutex is held
\* only by a call in progress and the server_pid mutex only by a call that is
\* storing its pid or by the hook, so when no call is in progress a waiting
\* start_server, get_server_port or hook can take its lock at once.
C19_LocksReleasedOnReturn ==
    /\ \A c \in StartCalls :
          Returned(c) => (port_lock # c /\ pid_lock # c)
    /\ port_lock # 0 => (port_lock \in StartCalls /\ InProgress(port_lock))
    /\ pid_lock \in StartCalls => pc[pid_lock] = "pid_store"
    /\ (\A c \in StartCalls : ~InProgress(c)) =>
          /\ port_lock = 0
          /\ \A c \in StartCalls :
                pc[c] = "lock" => ENABLED (LockPort(c) \/ LockPortPoisoned(c))
          /\ \A g \in GetCalls : get_pc[g] = "lock" => ENABLED GetServerPort(g)
          /\ hook_pc = "running" => ENABLED HookLock

\* C19 witness: one call returned the health timeout, another returned a
\* port, both mutexes are free and a get_server_port is about to lock.
C19_Witness ==
    /\ \E c \in StartCalls : Returned(c) /\ result[c].err = "timeout"
    /\ \E c \in StartCalls : ReturnedOk(c)
    /\ port_lock = 0
    /\ pid_lock = 0
    /\ \E g \in GetCalls : get_pc[g] = "lock"

\* C20 as stated: every start_server call that was invoked eventually
\* returns a port or an error, the calls that arrive while another call is in
\* progress included, and no call issues more than 20 health requests.
C20_Original ==
    /\ \A c \in StartCalls :
          (pc[c] = "lock") ~> (Returned(c) /\ result[c].tag \in {"Ok", "Err"})
    /\ [](\A c \in StartCalls : requests[c] <= 20)

====
